---- MODULE Spec2Model ----
(***************************************************************************)
(* Model of the PDF outline extractor (PDFOutlineExtractor, 1_a.py).       *)
(*                                                                         *)
(* Text is a sequence of one-character strings.  Font sizes and layout     *)
(* coordinates are integers.  A page-relative coordinate bbox/rect is kept *)
(* as the exact fraction <<numerator, denominator>>.                       *)
(*                                                                         *)
(* Five specifications share the module:                                    *)
(*   SpecMerge   merge_by_line on a fragment sequence, then on its output  *)
(*   SpecFont    analyze_font_distribution on a sequence of merged lines   *)
(*   SpecLevels  assign_heading_levels on candidates and significant sizes *)
(*   SpecDedup   the de-duplication loop of extract_outline                *)
(*   Spec        process_folder / process_and_save / extract_outline       *)
(***************************************************************************)
EXTENDS Integers, Sequences, FiniteSets, TLC

VARIABLES
    m_pc, m_elements, m_merged, m_remerged,
    f_pc, f_lines, f_result,
    l_pc, l_candidates, l_sig_sizes, l_headings,
    d_pc, d_headings, d_unique, d_again,
    pc, input_exists, pdf_files, idx, attempted, handles, saved, aborted_by,
    eo_pages, eo_title, eo_merged, eo_sig_sizes, eo_base_size, eo_candidates,
    eo_headings,
    outline, raised_at

mergeVars == <<m_pc, m_elements, m_merged, m_remerged>>
fontVars == <<f_pc, f_lines, f_result>>
levelVars == <<l_pc, l_candidates, l_sig_sizes, l_headings>>
dedupVars == <<d_pc, d_headings, d_unique, d_again>>

folderVars == <<pc, input_exists, pdf_files, idx, attempted, handles, saved, aborted_by>>
loopVars == <<input_exists, pdf_files, idx, attempted, handles, saved>>
localVars == <<eo_pages, eo_title, eo_merged, eo_sig_sizes, eo_base_size,
               eo_candidates, eo_headings>>
outlineVars == <<outline, raised_at>>
batchVars == <<folderVars, localVars, outlineVars>>
pureVars == <<mergeVars, fontVars, levelVars, dedupVars>>

vars == <<mergeVars, fontVars, levelVars, dedupVars, batchVars>>

-----------------------------------------------------------------------------
(* Bounds of the model.                                                    *)

MaxFrags == 2
MaxLines == 5
MaxSize == 5
MaxCands == 2
MaxHeadings == 3
MaxDocs == 2

-----------------------------------------------------------------------------
(* Sequence helpers.                                                       *)

RECURSIVE SeqMax(_)
SeqMax(s) ==
    IF Len(s) = 1 THEN s[1]
    ELSE LET m == SeqMax(Tail(s)) IN IF s[1] >= m THEN s[1] ELSE m

RECURSIVE SortedAsc(_)
SortedAsc(S) ==
    IF S = {} THEN <<>>
    ELSE LET lo == CHOOSE a \in S : \A b \in S : a <= b
         IN <<lo>> \o SortedAsc(S \ {lo})

SeqsUpTo(S, n) == UNION {[1..k -> S] : k \in 0..n}

-----------------------------------------------------------------------------
(* Characters and text.                                                    *)

WhiteSpace == {" ", "\t", "\n"}
Digits == {"0", "1", "2", "3"}
UpperSeq == <<"A", "B", "C", "D", "E", "F", "G", "H", "I", "J", "K", "L", "N", "O", "R", "T">>
LowerSeq == <<"a", "b", "c", "d", "e", "f", "g", "h", "i", "j", "k", "l", "n", "o", "r", "t">>
UpperChars == {UpperSeq[i] : i \in 1..Len(UpperSeq)}
LowerChars == {LowerSeq[i] : i \in 1..Len(LowerSeq)}

\* is_bold: bit 4 of the span's flag bitset
is_bold(flags) == (flags \div 16) % 2 = 1

RECURSIVE LStrip(_)
LStrip(s) ==
    IF s = <<>> THEN <<>>
    ELSE IF Head(s) \in WhiteSpace THEN LStrip(Tail(s)) ELSE s

RECURSIVE RStrip(_)
RStrip(s) ==
    IF s = <<>> THEN <<>>
    ELSE IF s[Len(s)] \in WhiteSpace THEN RStrip(SubSeq(s, 1, Len(s) - 1)) ELSE s

\* str.strip()
Strip(s) == RStrip(LStrip(s))

\* re.sub(r'\s+', ' ', text): every maximal whitespace run becomes one blank
RECURSIVE CollapseWhitespace(_)
CollapseWhitespace(s) ==
    IF s = <<>> THEN <<>>
    ELSE IF Head(s) \in WhiteSpace
         THEN <<" ">> \o CollapseWhitespace(LStrip(Tail(s)))
         ELSE <<Head(s)>> \o CollapseWhitespace(Tail(s))

clean_text(text) == Strip(CollapseWhitespace(text))

\* " ".join(texts)
RECURSIVE JoinSpace(_)
JoinSpace(texts) ==
    IF texts = <<>> THEN <<>>
    ELSE IF Len(texts) = 1 THEN texts[1]
    ELSE texts[1] \o <<" ">> \o JoinSpace(Tail(texts))

-----------------------------------------------------------------------------
(* merge_by_line.                                                          *)

DefaultTol == 3

\* rounding towards minus infinity instead of to the nearest integer
RoundDown(n, d) == n \div d

\* Python round(n / d) for integers n and d > 0: nearest integer, a tie goes
\* to the even neighbour.
RoundHalfEven(n, d) ==
    LET q == n \div d
        r == n % d
    IN IF 2 * r < d THEN q
       ELSE IF 2 * r > d THEN q + 1
       ELSE IF q % 2 = 0 THEN q ELSE q + 1

\* key = round(elem["line_y"] / tol) * tol
LineKey(elem, tol) == RoundHalfEven(elem.line_y, tol) * tol

\* lines[key]: the elements of a key, in input order
SpansOfKey(elements, key, tol) ==
    SelectSeq(elements, LAMBDA e : LineKey(e, tol) = key)

\* list.sort(key=lambda e: e["x"]): stable, ascending x
RECURSIVE InsertByX(_, _)
InsertByX(sorted, e) ==
    IF sorted = <<>> THEN <<e>>
    ELSE IF sorted[Len(sorted)].x <= e.x THEN Append(sorted, e)
    ELSE Append(InsertByX(SubSeq(sorted, 1, Len(sorted) - 1), e), sorted[Len(sorted)])

RECURSIVE SortByX(_)
SortByX(spans) ==
    IF spans = <<>> THEN <<>>
    ELSE InsertByX(SortByX(SubSeq(spans, 1, Len(spans) - 1)), spans[Len(spans)])

\* the text of one group after the join and clean_text
LineText(spans) == clean_text(JoinSpace([i \in 1..Len(spans) |-> spans[i].text]))

\* the dict appended to merged for one key
MergedLine(spans, key) ==
    LET rep == spans[1]
    IN [text |-> LineText(spans),
        size |-> SeqMax([i \in 1..Len(spans) |-> spans[i].size]),
        flags |-> rep.flags,
        has_bold |-> \E i \in 1..Len(spans) : is_bold(spans[i].flags),
        page |-> rep.page,
        relative_x |-> rep.relative_x,
        relative_y |-> rep.relative_y,
        line_y |-> key]

RECURSIVE MergeKeys(_, _, _)
MergeKeys(elements, keys, tol) ==
    IF keys = <<>> THEN <<>>
    ELSE LET spans == SortByX(SpansOfKey(elements, Head(keys), tol))
             rest == MergeKeys(elements, Tail(keys), tol)
         IN IF LineText(spans) = <<>> THEN rest
            ELSE <<MergedLine(spans, Head(keys))>> \o rest

\* The outcome of a call: the returned list, or the exception that left it.
Returned(lines) == [error |-> "none", lines |-> lines]
Raised(exc) == [error |-> exc, lines |-> <<>>]

\* merge_by_line(elements, tol).  The sort key e["x"] is evaluated for every
\* element of every group, so an element without an "x" entry raises KeyError.
merge_by_line(elements, tol) ==
    IF \E i \in 1..Len(elements) : "x" \notin DOMAIN elements[i]
    THEN Raised("KeyError")
    ELSE Returned(MergeKeys(elements,
                            SortedAsc({LineKey(elements[i], tol) : i \in 1..Len(elements)}),
                            tol))

-----------------------------------------------------------------------------
(* analyze_font_distribution.                                              *)

DefaultBaseSize == 12
MaxSignificant == 3

\* counts[size]
CountOf(sizes, size) == Cardinality({i \in 1..Len(sizes) : sizes[i] = size})

\* Counter(sizes).most_common(1)[0][0]: the largest count; among equal counts
\* the size that entered the counter first
MostCommon(sizes) ==
    LET first(v) == CHOOSE i \in 1..Len(sizes) :
                        sizes[i] = v /\ \A j \in 1..(i - 1) : sizes[j] # v
    IN CHOOSE v \in {sizes[i] : i \in 1..Len(sizes)} :
           \A w \in {sizes[i] : i \in 1..Len(sizes)} :
               \/ CountOf(sizes, v) > CountOf(sizes, w)
               \/ CountOf(sizes, v) = CountOf(sizes, w) /\ first(v) <= first(w)

\* the share test with <= in place of <
AtMostShare(count, total) == count * 10 <= total * 4

\* counts[size] < len(lines) * 0.4, in exact arithmetic
BelowShare(count, total) == count * 10 < total * 4

\* sorted(set(...), reverse=True)
RECURSIVE SortedDesc(_)
SortedDesc(S) ==
    IF S = {} THEN <<>>
    ELSE LET hi == CHOOSE a \in S : \A b \in S : a >= b
         IN <<hi>> \o SortedDesc(S \ {hi})

\* s[:n]
Prefix(s, n) == SubSeq(s, 1, IF Len(s) < n THEN Len(s) ELSE n)

analyze_font_distribution(lines) ==
    LET all == [i \in 1..Len(lines) |-> lines[i].size]
        sizes == SelectSeq(all, LAMBDA z : z > 0)
    IN IF sizes = <<>>
       THEN [sig_sizes |-> <<>>, base_size |-> DefaultBaseSize]
       ELSE LET base_size == MostCommon(sizes)
                significant == {z \in {sizes[i] : i \in 1..Len(sizes)} :
                                    z > base_size
                                    /\ BelowShare(CountOf(sizes, z), Len(lines))}
            IN [sig_sizes |-> Prefix(SortedDesc(significant), MaxSignificant),
                base_size |-> base_size]

-----------------------------------------------------------------------------
(* is_heading_candidate.                                                   *)

\* str.isdigit()
IsDigitText(txt) == txt # <<>> /\ \A i \in 1..Len(txt) : txt[i] \in Digits

\* str.isupper(): some cased character, and no lower-case one
IsUpperText(txt) ==
    /\ \E i \in 1..Len(txt) : txt[i] \in UpperChars
    /\ \A i \in 1..Len(txt) : txt[i] \notin LowerChars

\* re.match(r'^\d+[\.\)]', txt)
IsNumbered(txt) ==
    \E k \in 2..Len(txt) :
        /\ \A i \in 1..(k - 1) : txt[i] \in Digits
        /\ txt[k] \in {".", ")"}

\* rel < num/den for the fraction rel = <<n, d>>, d > 0
RelBelow(rel, num, den) == rel[1] * den < num * rel[2]

is_heading_candidate(element, sig_sizes, base_size) ==
    LET txt == clean_text(element.text)
    IN IF Len(txt) < 3 \/ IsDigitText(txt) THEN FALSE
       ELSE \/ \E i \in 1..Len(sig_sizes) : sig_sizes[i] = element.size
            \/ element.has_bold /\ element.size >= base_size
            \/ IsUpperText(txt) /\ Len(txt) > 6
            \/ IsNumbered(txt)
            \/ RelBelow(element.relative_y, 2, 10)

-----------------------------------------------------------------------------
(* assign_heading_levels.                                                  *)

\* the level named after the 0-based position itself
LevelNameFromZero(i) == "H" \o ToString(i - 1)

\* f"H{i+1}" for the 0-based position i, here the 1-based position
LevelName(i) == "H" \o ToString(i)

\* level_map.get(size, "H3"); a size listed twice keeps its last position
LevelOf(size, sig_sizes) ==
    LET at == {i \in 1..Len(sig_sizes) : sig_sizes[i] = size}
    IN IF at = {} THEN "H3"
       ELSE LevelName(CHOOSE i \in at : \A j \in at : j <= i)

assign_heading_levels(candidates, sig_sizes) ==
    [i \in 1..Len(candidates) |->
        [level |-> LevelOf(candidates[i].size, sig_sizes),
         text |-> clean_text(candidates[i].text),
         page |-> candidates[i].page]]

-----------------------------------------------------------------------------
(* The de-duplication loop of extract_outline.                             *)

MinTextLen == 3

HeadingKey(h) == <<h.level, h.text>>

\* the length test with >= in place of >
KeepsFromMinLen(h, seen) == HeadingKey(h) \notin seen /\ Len(h.text) >= MinTextLen

\* if key not in seen and len(h["text"]) > 3
KeepsHeading(h, seen) == HeadingKey(h) \notin seen /\ Len(h.text) > MinTextLen

RECURSIVE DedupFrom(_, _)
DedupFrom(headings, seen) ==
    IF headings = <<>> THEN <<>>
    ELSE LET h == Head(headings)
         IN IF KeepsHeading(h, seen)
            THEN <<h>> \o DedupFrom(Tail(headings), seen \cup {HeadingKey(h)})
            ELSE DedupFrom(Tail(headings), seen)

unique_headings(headings) == DedupFrom(headings, {})

-----------------------------------------------------------------------------
(* extract_text_with_metadata: the dict built for one span.                *)
(* A span is [text, size, flags, x0, y0] (bbox reduced to its origin), a   *)
(* rect is [width, height].  The entries no later step reads (font, bbox,  *)
(* width, height, page_width, page_height) are left out.                   *)

Element(span, line_y, page, rect) ==
    [text |-> Strip(span.text),
     size |-> span.size,
     flags |-> span.flags,
     page |-> page,
     x |-> span.x0,
     y |-> span.y0,
     relative_x |-> <<span.x0, rect.width>>,
     relative_y |-> <<span.y0, rect.height>>,
     line_y |-> line_y]

-----------------------------------------------------------------------------
(* Idle values: a specification leaves the other specifications' state at  *)
(* these.                                                                  *)

NoResult == Raised("unset")

IdleMerge ==
    m_pc = "idle" /\ m_elements = <<>> /\ m_merged = NoResult /\ m_remerged = NoResult
IdleFont ==
    f_pc = "idle" /\ f_lines = <<>>
    /\ f_result = [sig_sizes |-> <<>>, base_size |-> 0]
IdleLevels ==
    l_pc = "idle" /\ l_candidates = <<>> /\ l_sig_sizes = <<>> /\ l_headings = <<>>
IdleDedup ==
    d_pc = "idle" /\ d_headings = <<>> /\ d_unique = <<>> /\ d_again = <<>>

NoOutline == [title |-> <<>>, outline |-> <<>>]

\* the locals of extract_outline before the call has assigned them
LocalsUnset ==
    /\ eo_pages = <<>> /\ eo_title = <<>> /\ eo_merged = <<>>
    /\ eo_sig_sizes = <<>> /\ eo_base_size = 0
    /\ eo_candidates = <<>> /\ eo_headings = <<>>

IdleBatch ==
    /\ pc = "idle" /\ input_exists = FALSE /\ pdf_files = <<>> /\ idx = 0
    /\ attempted = {} /\ handles = <<>> /\ saved = <<>> /\ aborted_by = "none"
    /\ LocalsUnset
    /\ outline = NoOutline /\ raised_at = "none"

-----------------------------------------------------------------------------
(* SpecMerge: merge_by_line(elements) with the default tolerance, then     *)
(* merge_by_line on the list it returned.                                  *)

MergePages == {1, 2}
MergeTexts == {<<"a">>, <<" ">>, <<"b", "\t", " ", "c">>}
MergeStyles == {[size |-> 10, flags |-> 0], [size |-> 12, flags |-> 16]}
MergeXs == {0, 1}
MergeLineYs == {100, 101, 102}
MergeRect == [width |-> 200, height |-> 200]

\* the dicts handed to merge_by_line; the text may be blank here, which
\* merge_by_line tolerates (a group whose text is empty is skipped)
MergeElements ==
    {[Element([text |-> <<"a">>, size |-> st.size, flags |-> st.flags,
               x0 |-> x, y0 |-> ly], ly, p, MergeRect) EXCEPT !.text = t] :
        t \in MergeTexts, st \in MergeStyles, x \in MergeXs,
        ly \in MergeLineYs, p \in MergePages}

InitMerge ==
    /\ m_pc = "start"
    /\ m_elements \in SeqsUpTo(MergeElements, MaxFrags)
    /\ m_merged = NoResult
    /\ m_remerged = NoResult
    /\ IdleFont /\ IdleLevels /\ IdleDedup /\ IdleBatch

Merge ==
    /\ m_pc = "start"
    /\ m_merged' = merge_by_line(m_elements, DefaultTol)
    /\ m_pc' = "merged"
    /\ UNCHANGED <<m_elements, m_remerged, fontVars, levelVars, dedupVars, batchVars>>

Remerge ==
    /\ m_pc = "merged"
    /\ m_merged.error = "none"
    /\ m_remerged' = merge_by_line(m_merged.lines, DefaultTol)
    /\ m_pc' = "remerged"
    /\ UNCHANGED <<m_elements, m_merged, fontVars, levelVars, dedupVars, batchVars>>

NextMerge == Merge \/ Remerge

SpecMerge == InitMerge /\ [][NextMerge]_vars

-----------------------------------------------------------------------------
(* SpecFont: analyze_font_distribution(lines).                             *)

\* a merged line of the given size; size 0 stands for a non-positive size
LineOfSize(z) ==
    [text |-> <<"a", "b", "c", "d">>, size |-> z, flags |-> 0, has_bold |-> FALSE,
     page |-> 1, relative_x |-> <<0, 200>>, relative_y |-> <<100, 200>>,
     line_y |-> 99]

InitFont ==
    /\ f_pc = "start"
    /\ f_lines \in SeqsUpTo({LineOfSize(z) : z \in 0..MaxSize}, MaxLines)
    /\ f_result = [sig_sizes |-> <<>>, base_size |-> 0]
    /\ IdleMerge /\ IdleLevels /\ IdleDedup /\ IdleBatch

Analyze ==
    /\ f_pc = "start"
    /\ f_result' = analyze_font_distribution(f_lines)
    /\ f_pc' = "done"
    /\ UNCHANGED <<f_lines, mergeVars, levelVars, dedupVars, batchVars>>

NextFont == Analyze

SpecFont == InitFont /\ [][NextFont]_vars

-----------------------------------------------------------------------------
(* SpecLevels: assign_heading_levels(candidates, sig_sizes).               *)

LevelSizes == 9..12
LevelTexts == {<<"a", "b", "c", "d">>, <<"1", ".", " ", " ", "A", "b">>}
LevelPages == {1, 2}

CandidateLines ==
    {[LineOfSize(z) EXCEPT !.text = t, !.page = p] :
        z \in LevelSizes, t \in LevelTexts, p \in LevelPages}

\* the lists analyze_font_distribution returns: at most MaxSignificant sizes,
\* strictly descending
SigSizeLists ==
    {s \in SeqsUpTo(LevelSizes, MaxSignificant) :
        \A i \in 1..Len(s) : \A j \in 1..Len(s) : i < j => s[i] > s[j]}

InitLevels ==
    /\ l_pc = "start"
    /\ l_candidates \in SeqsUpTo(CandidateLines, MaxCands)
    /\ l_sig_sizes \in SigSizeLists
    /\ l_headings = <<>>
    /\ IdleMerge /\ IdleFont /\ IdleDedup /\ IdleBatch

AssignLevels ==
    /\ l_pc = "start"
    /\ l_headings' = assign_heading_levels(l_candidates, l_sig_sizes)
    /\ l_pc' = "done"
    /\ UNCHANGED <<l_candidates, l_sig_sizes, mergeVars, fontVars, dedupVars, batchVars>>

NextLevels == AssignLevels

SpecLevels == InitLevels /\ [][NextLevels]_vars

-----------------------------------------------------------------------------
(* SpecDedup: the de-duplication loop, then the same loop on its output.   *)

DedupLevels == {"H1", "H2", "H3"}
DedupTexts == {<<"a", "b", "c">>, <<"a", "b", "c", "d">>, <<"I", "n", "t", "r", "o">>}
DedupPages == {1, 2}

HeadingRecords == [level : DedupLevels, text : DedupTexts, page : DedupPages]

InitDedup ==
    /\ d_pc = "start"
    /\ d_headings \in SeqsUpTo(HeadingRecords, MaxHeadings)
    /\ d_unique = <<>>
    /\ d_again = <<>>
    /\ IdleMerge /\ IdleFont /\ IdleLevels /\ IdleBatch

Dedup ==
    /\ d_pc = "start"
    /\ d_unique' = unique_headings(d_headings)
    /\ d_pc' = "once"
    /\ UNCHANGED <<d_headings, d_again, mergeVars, fontVars, levelVars, batchVars>>

DedupAgain ==
    /\ d_pc = "once"
    /\ d_again' = unique_headings(d_unique)
    /\ d_pc' = "twice"
    /\ UNCHANGED <<d_headings, d_unique, mergeVars, fontVars, levelVars, batchVars>>

NextDedup == Dedup \/ DedupAgain

SpecDedup == InitDedup /\ [][NextDedup]_vars

-----------------------------------------------------------------------------
(* get_title and the file-name fallback.                                   *)

IsLetter(c) == c \in UpperChars \/ c \in LowerChars

ToUpper(c) ==
    IF c \in LowerChars THEN UpperSeq[CHOOSE i \in 1..Len(LowerSeq) : LowerSeq[i] = c]
    ELSE c

ToLower(c) ==
    IF c \in UpperChars THEN LowerSeq[CHOOSE i \in 1..Len(UpperSeq) : UpperSeq[i] = c]
    ELSE c

\* str.title(): a letter that follows a letter is lower-cased, any other
\* letter is upper-cased
TitleCase(s) ==
    [i \in 1..Len(s) |->
        IF i > 1 /\ IsLetter(s[i - 1]) THEN ToLower(s[i]) ELSE ToUpper(s[i])]

\* str.replace('_', ' ')
UnderscoresToSpaces(s) == [i \in 1..Len(s) |-> IF s[i] = "_" THEN " " ELSE s[i]]

\* Path(pdf_path).stem.replace('_', ' ').title()
FallbackTitle(stem) == TitleCase(UnderscoresToSpaces(stem))

\* get_title(pages): among the first page's elements with more than 10
\* characters in the top 30% of the page, the first of the largest size
get_title(page_list) ==
    IF page_list = <<>> THEN <<>>
    ELSE LET first_page == page_list[1]
             cand == SelectSeq(first_page,
                               LAMBDA e : Len(clean_text(e.text)) > 10
                                          /\ RelBelow(e.relative_y, 3, 10))
         IN IF cand = <<>> THEN <<>>
            ELSE LET best == CHOOSE i \in 1..Len(cand) :
                                 /\ \A j \in 1..Len(cand) : cand[j].size <= cand[i].size
                                 /\ \A j \in 1..(i - 1) : cand[j].size < cand[i].size
                 IN clean_text(cand[best].text)

-----------------------------------------------------------------------------
(* extract_text_with_metadata.                                             *)
(* A document is [stem, pages]; a page is [rect, spans], its blocks and     *)
(* lines flattened to spans that carry the top of their line's bbox.       *)

PageElements(page, page_num) ==
    LET kept == SelectSeq(page.spans, LAMBDA sp : Strip(sp.text) # <<>>)
    IN [i \in 1..Len(kept) |-> Element(kept[i], kept[i].line_y, page_num, page.rect)]

extract_text_with_metadata(doc) ==
    [n \in 1..Len(doc.pages) |-> PageElements(doc.pages[n], n)]

\* [el for page in pages for el in page]
RECURSIVE Flatten(_)
Flatten(page_list) ==
    IF page_list = <<>> THEN <<>> ELSE Head(page_list) \o Flatten(Tail(page_list))

-----------------------------------------------------------------------------
(* Spec: process_folder, process_and_save and extract_outline.             *)
(* An exception may leave any step; which one does is chosen freely.       *)

A4 == [width |-> 600, height |-> 800]

Span(text, size, flags, x0, top) ==
    [text |-> text, size |-> size, flags |-> flags, x0 |-> x0, y0 |-> top,
     line_y |-> top]

HeadSpan(top) ==
    Span(<<"C", "H", "A", "B", " ", "O", "N", "E", " ", "F", "I", "G">>, 24, 16, 10, top)
BodySpan(top) == Span(<<"a", "b", "c", "d", " ", "e", "f">>, 10, 0, 10, top)
TailSpan(top) == Span(<<"g", "h", "i", "j">>, 10, 0, 90, top)
IntroSpan(top) == Span(<<"1", ".", " ", "I", "n", "t", "r", "o">>, 10, 0, 10, top)
NoteSpan(top) == Span(<<"2", ")", " ", "N", "o", "t", "e">>, 12, 0, 10, top)
BlankSpan(top) == Span(<<" ">>, 10, 0, 10, top)

Documents ==
    { [stem |-> <<"e">>, pages |-> <<>>],
      [stem |-> <<"a", "_", "b", "C">>,
       pages |-> <<[rect |-> A4, spans |-> <<BlankSpan(10)>>]>>],
      [stem |-> <<"o", "n", "e">>,
       pages |-> <<[rect |-> A4,
                   spans |-> <<HeadSpan(40), BodySpan(300), TailSpan(301),
                               BodySpan(330), BodySpan(360), IntroSpan(400)>>]>>],
      [stem |-> <<"t", "_", "o">>,
       pages |-> <<[rect |-> A4, spans |-> <<IntroSpan(400), BodySpan(430)>>],
                   [rect |-> A4, spans |-> <<NoteSpan(100), BodySpan(130)>>]>>],
      [stem |-> <<"d", "1">>,
       pages |-> <<[rect |-> A4, spans |-> <<IntroSpan(100)>>],
                   [rect |-> A4, spans |-> <<IntroSpan(100), IntroSpan(700)>>]>>] }

\* list(input_dir.glob("*.pdf")): distinct files, in any order
FileLists ==
    {fs \in SeqsUpTo(Documents, MaxDocs) :
        \A i \in 1..Len(fs) : \A j \in 1..Len(fs) : i # j => fs[i] # fs[j]}

pdf == pdf_files[idx]

\* the try statement of extract_outline encloses every step of the body
TrySteps ==
    {"open", "extract", "close", "get_title", "merge", "analyze", "classify",
     "assign", "dedup"}
TryCovers(step) == step \in TrySteps

\* an except clause that hands back the headings built so far
DegradedPartial(doc) == [title |-> doc.stem, outline |-> eo_headings]

\* the record the except clause returns
Degraded(doc) == [title |-> doc.stem, outline |-> <<>>]

\* An exception leaves the given step of extract_outline: the except clause
\* returns the degraded record to process_and_save.
Except(step) ==
    /\ raised_at' = step
    /\ IF TryCovers(step)
       THEN /\ outline' = Degraded(pdf)
            /\ pc' = "dump"
            /\ UNCHANGED aborted_by
       ELSE /\ pc' = "aborted"
            /\ aborted_by' = step
            /\ UNCHANGED outline

Init ==
    /\ pc = "start"
    /\ input_exists \in BOOLEAN
    /\ pdf_files \in FileLists
    /\ input_exists = FALSE => pdf_files = <<>>
    /\ idx = 0
    /\ attempted = {}
    /\ handles = [i \in 1..Len(pdf_files) |-> "none"]
    /\ saved = <<>>
    /\ aborted_by = "none"
    /\ LocalsUnset
    /\ outline = NoOutline
    /\ raised_at = "none"
    /\ IdleMerge /\ IdleFont /\ IdleLevels /\ IdleDedup

\* process_folder up to the loop
process_folder ==
    /\ UNCHANGED pureVars
    /\ pc = "start"
    /\ IF ~input_exists \/ pdf_files = <<>>
       THEN pc' = "done" /\ UNCHANGED idx
       ELSE pc' = "loop" /\ idx' = 1
    /\ UNCHANGED <<input_exists, pdf_files, attempted, handles, saved, aborted_by,
                   localVars, outlineVars>>

\* for pdf in pdf_files: process_and_save(pdf, output_dir) is called
NextPdf ==
    /\ UNCHANGED pureVars
    /\ pc = "loop"
    /\ IF idx > Len(pdf_files)
       THEN pc' = "done" /\ UNCHANGED attempted
       ELSE pc' = "mkdir" /\ attempted' = attempted \cup {idx}
    /\ UNCHANGED <<input_exists, pdf_files, idx, handles, saved, aborted_by,
                   localVars, outlineVars>>

\* output_dir.mkdir(exist_ok=True, parents=True); an OSError is not caught
\* anywhere and ends process_folder
Mkdir ==
    /\ UNCHANGED pureVars
    /\ pc = "mkdir"
    /\ \E ok \in BOOLEAN :
           IF ok THEN pc' = "open" /\ UNCHANGED aborted_by
           ELSE pc' = "aborted" /\ aborted_by' = "mkdir"
    /\ UNCHANGED <<input_exists, pdf_files, idx, attempted, handles, saved,
                   localVars, outlineVars>>

\* doc = pymupdf.open(pdf_path), in a fresh frame of extract_outline
Open ==
    /\ UNCHANGED pureVars
    /\ pc = "open"
    /\ eo_pages' = <<>> /\ eo_title' = <<>> /\ eo_merged' = <<>>
    /\ eo_sig_sizes' = <<>> /\ eo_base_size' = 0
    /\ eo_candidates' = <<>> /\ eo_headings' = <<>>
    /\ \E raises \in BOOLEAN :
           IF raises THEN Except("open") /\ UNCHANGED handles
           ELSE /\ handles' = [handles EXCEPT ![idx] = "open"]
                /\ pc' = "extract"
                /\ raised_at' = "none"
                /\ outline' = NoOutline
                /\ UNCHANGED aborted_by
    /\ UNCHANGED <<input_exists, pdf_files, idx, attempted, saved>>

\* pages = self.extract_text_with_metadata(doc)
Extract ==
    /\ UNCHANGED pureVars
    /\ pc = "extract"
    /\ \E raises \in BOOLEAN :
           IF raises THEN Except("extract") /\ UNCHANGED eo_pages
           ELSE /\ eo_pages' = extract_text_with_metadata(pdf)
                /\ pc' = "close"
                /\ UNCHANGED <<outlineVars, aborted_by>>
    /\ UNCHANGED <<loopVars, eo_title, eo_merged, eo_sig_sizes, eo_base_size,
                   eo_candidates, eo_headings>>

\* doc.close()
Close ==
    /\ UNCHANGED pureVars
    /\ pc = "close"
    /\ handles' = [handles EXCEPT ![idx] = "closed"]
    /\ pc' = "get_title"
    /\ UNCHANGED <<input_exists, pdf_files, idx, attempted, saved, aborted_by,
                   localVars, outlineVars>>

\* title = self.get_title(pages), or the file-name fallback
GetTitle ==
    /\ UNCHANGED pureVars
    /\ pc = "get_title"
    /\ \E raises \in BOOLEAN :
           IF raises THEN Except("get_title") /\ UNCHANGED eo_title
           ELSE /\ eo_title' = IF get_title(eo_pages) # <<>> THEN get_title(eo_pages)
                               ELSE FallbackTitle(pdf.stem)
                /\ pc' = "merge"
                /\ UNCHANGED <<outlineVars, aborted_by>>
    /\ UNCHANGED <<loopVars, eo_pages, eo_merged, eo_sig_sizes, eo_base_size,
                   eo_candidates, eo_headings>>

\* merged = self.merge_by_line(all_elements)
MergeLines ==
    /\ UNCHANGED pureVars
    /\ pc = "merge"
    /\ LET result == merge_by_line(Flatten(eo_pages), DefaultTol)
       IN \E raises \in BOOLEAN :
              IF raises \/ result.error # "none"
              THEN Except("merge") /\ UNCHANGED eo_merged
              ELSE /\ eo_merged' = result.lines
                   /\ pc' = "analyze"
                   /\ UNCHANGED <<outlineVars, aborted_by>>
    /\ UNCHANGED <<loopVars, eo_pages, eo_title, eo_sig_sizes, eo_base_size,
                   eo_candidates, eo_headings>>

\* sig_sizes, base_size = self.analyze_font_distribution(merged)
AnalyzeFonts ==
    /\ UNCHANGED pureVars
    /\ pc = "analyze"
    /\ \E raises \in BOOLEAN :
           IF raises THEN Except("analyze") /\ UNCHANGED <<eo_sig_sizes, eo_base_size>>
           ELSE /\ eo_sig_sizes' = analyze_font_distribution(eo_merged).sig_sizes
                /\ eo_base_size' = analyze_font_distribution(eo_merged).base_size
                /\ pc' = "classify"
                /\ UNCHANGED <<outlineVars, aborted_by>>
    /\ UNCHANGED <<loopVars, eo_pages, eo_title, eo_merged, eo_candidates,
                   eo_headings>>

\* candidates = [el for el in merged if self.is_heading_candidate(...)]
Classify ==
    /\ UNCHANGED pureVars
    /\ pc = "classify"
    /\ \E raises \in BOOLEAN :
           IF raises THEN Except("classify") /\ UNCHANGED eo_candidates
           ELSE /\ eo_candidates' =
                       SelectSeq(eo_merged,
                                 LAMBDA el : is_heading_candidate(el, eo_sig_sizes,
                                                                  eo_base_size))
                /\ pc' = "assign"
                /\ UNCHANGED <<outlineVars, aborted_by>>
    /\ UNCHANGED <<loopVars, eo_pages, eo_title, eo_merged, eo_sig_sizes,
                   eo_base_size, eo_headings>>

\* headings = self.assign_heading_levels(candidates, sig_sizes)
Assign ==
    /\ UNCHANGED pureVars
    /\ pc = "assign"
    /\ \E raises \in BOOLEAN :
           IF raises THEN Except("assign") /\ UNCHANGED eo_headings
           ELSE /\ eo_headings' = assign_heading_levels(eo_candidates, eo_sig_sizes)
                /\ pc' = "dedup"
                /\ UNCHANGED <<outlineVars, aborted_by>>
    /\ UNCHANGED <<loopVars, eo_pages, eo_title, eo_merged, eo_sig_sizes,
                   eo_base_size, eo_candidates>>

\* the de-duplication loop and return {"title": ..., "outline": ...}
DedupReturn ==
    /\ UNCHANGED pureVars
    /\ pc = "dedup"
    /\ \E raises \in BOOLEAN :
           IF raises THEN Except("dedup")
           ELSE /\ outline' = [title |-> eo_title,
                               outline |-> unique_headings(eo_headings)]
                /\ pc' = "dump"
                /\ UNCHANGED <<raised_at, aborted_by>>
    /\ UNCHANGED <<loopVars, localVars>>

\* open(output_file, 'w') and json.dump(outline, f); an OSError is not caught
\* anywhere and ends process_folder
Dump ==
    /\ UNCHANGED pureVars
    /\ pc = "dump"
    /\ \E ok \in BOOLEAN :
           IF ok
           THEN /\ saved' = Append(saved, [file |-> pdf.stem, record |-> outline])
                /\ idx' = idx + 1
                /\ pc' = "loop"
                /\ UNCHANGED aborted_by
           ELSE /\ pc' = "aborted"
                /\ aborted_by' = "dump"
                /\ UNCHANGED <<saved, idx>>
    /\ UNCHANGED <<input_exists, pdf_files, attempted, handles, localVars,
                   outlineVars>>

Next ==
    \/ process_folder
    \/ NextPdf
    \/ Mkdir
    \/ Open
    \/ Extract
    \/ Close
    \/ GetTitle
    \/ MergeLines
    \/ AnalyzeFonts
    \/ Classify
    \/ Assign
    \/ DedupReturn
    \/ Dump

Spec == Init /\ [][Next]_vars

-----------------------------------------------------------------------------
(* Properties of merge_by_line (SpecMerge).                                *)

NonBlank(e) == clean_text(e.text) # <<>>

\* the text two elements on one line give: left to right by ascending x, the
\* input order on equal x
JoinedByX(e1, e2) ==
    IF e1.x <= e2.x
    THEN clean_text(e1.text) \o <<" ">> \o clean_text(e2.text)
    ELSE clean_text(e2.text) \o <<" ">> \o clean_text(e1.text)

TwoOnOnePage ==
    /\ m_pc = "merged"
    /\ Len(m_elements) = 2
    /\ NonBlank(m_elements[1]) /\ NonBlank(m_elements[2])
    /\ m_elements[1].page = m_elements[2].page

OneJoinedLine ==
    /\ m_merged.error = "none"
    /\ Len(m_merged.lines) = 1
    /\ m_merged.lines[1].text = JoinedByX(m_elements[1], m_elements[2])

\* C1: two fragments on different pages are never combined into one merged
\* line: the text of every merged line is made of the fragments of the line's
\* own page only.
C1_PageIsolation ==
    m_pc = "merged" =>
        \A k \in 1..Len(m_merged.lines) :
            LET line == m_merged.lines[k]
                own == SelectSeq(m_elements,
                                 LAMBDA e : e.page = line.page
                                            /\ LineKey(e, DefaultTol) = line.line_y)
            IN line.text = LineText(SortByX(own))

\* C2 as stated: with tolerance 3, two non-blank fragments on one page with
\* line-y 100 and 101 give exactly one merged line holding both texts, left
\* to right by ascending x.
C2_Merge100And101 ==
    (TwoOnOnePage /\ {m_elements[1].line_y, m_elements[2].line_y} = {100, 101})
        => OneJoinedLine

\* C2 amended: with tolerance 3, two non-blank fragments on one page with
\* line-y 101 and 102 (both round to 102) give exactly one merged line holding
\* both texts, left to right by ascending x; line-y 100 and 101 round to 99 and
\* 102 and give two merged lines.
C2_Merge101And102 ==
    /\ (TwoOnOnePage /\ {m_elements[1].line_y, m_elements[2].line_y} = {101, 102})
           => OneJoinedLine
    /\ (TwoOnOnePage /\ {m_elements[1].line_y, m_elements[2].line_y} = {100, 101})
           => (m_merged.error = "none" /\ Len(m_merged.lines) = 2)

\* C2 witness: line-y 101 and 102 on one page, the second fragment to the left
\* of the first, merged into one line.
C2_Witness ==
    /\ TwoOnOnePage
    /\ m_elements[1].line_y = 101 /\ m_elements[2].line_y = 102
    /\ m_elements[2].x < m_elements[1].x
    /\ m_elements[1].text # m_elements[2].text
    /\ Len(m_merged.lines) = 1

\* C9: merging the merged lines again with the same tolerance returns the same
\* lines (text, size, boldness, page, position and line-y alike).
C9_RemergeIdempotent ==
    m_pc = "remerged" => m_remerged = m_merged

-----------------------------------------------------------------------------
(* Properties of analyze_font_distribution (SpecFont).                     *)

LinesOfSize(z) == {i \in 1..Len(f_lines) : f_lines[i].size = z}

\* C7: the significant sizes are at most 3, strictly descending, each above
\* the base size and each the size of fewer than 40% of all lines; with no
\* line of positive size the result is the empty list and base size 12.
C7_SignificantSizes ==
    f_pc = "done" =>
        LET sig == f_result.sig_sizes
        IN /\ Len(sig) <= 3
           /\ \A i \in 1..Len(sig) : \A j \in 1..Len(sig) : i < j => sig[i] > sig[j]
           /\ \A i \in 1..Len(sig) : sig[i] > f_result.base_size
           /\ \A i \in 1..Len(sig) :
                  10 * Cardinality(LinesOfSize(sig[i])) < 4 * Len(f_lines)
           /\ (\A i \in 1..Len(f_lines) : f_lines[i].size <= 0)
                  => (sig = <<>> /\ f_result.base_size = 12)

\* C7 witness: more than three distinct sizes qualify and three are returned.
C7_Witness ==
    /\ f_pc = "done"
    /\ Len(f_result.sig_sizes) = 3
    /\ Cardinality({z \in 1..MaxSize :
                       /\ z > f_result.base_size
                       /\ LinesOfSize(z) # {}
                       /\ 10 * Cardinality(LinesOfSize(z)) < 4 * Len(f_lines)}) > 3

-----------------------------------------------------------------------------
(* Properties of assign_heading_levels (SpecLevels).                       *)

LevelNames == <<"H1", "H2", "H3">>

\* C10: one heading per candidate, in order, with the candidate's page; the
\* k-th significant size gets level Hk, a size outside the list gets H3, so
\* every level is H1, H2 or H3.
C10_LevelAssignment ==
    l_pc = "done" =>
        /\ Len(l_headings) = Len(l_candidates)
        /\ \A i \in 1..Len(l_headings) :
               /\ l_headings[i].page = l_candidates[i].page
               /\ l_headings[i].level \in {"H1", "H2", "H3"}
               /\ \A k \in 1..Len(l_sig_sizes) :
                      l_candidates[i].size = l_sig_sizes[k]
                          => l_headings[i].level = LevelNames[k]
               /\ (\A k \in 1..Len(l_sig_sizes) :
                      l_candidates[i].size # l_sig_sizes[k])
                          => l_headings[i].level = "H3"

\* C10 witness: three significant sizes, one candidate of the second and one
\* of a size outside the list.
C10_Witness ==
    /\ l_pc = "done"
    /\ Len(l_sig_sizes) = 3
    /\ Len(l_candidates) = 2
    /\ l_candidates[1].size = l_sig_sizes[2]
    /\ \A k \in 1..3 : l_candidates[2].size # l_sig_sizes[k]
    /\ l_headings[1].level = "H2"

-----------------------------------------------------------------------------
(* Properties of the de-duplication loop (SpecDedup).                      *)

\* the positions the loop is to keep: text longer than 3 characters and no
\* earlier heading with the same level and text
FirstOccurrences ==
    {i \in 1..Len(d_headings) :
        /\ Len(d_headings[i].text) > 3
        /\ \A j \in 1..(i - 1) :
               ~(d_headings[j].level = d_headings[i].level
                 /\ d_headings[j].text = d_headings[i].text)}

\* the k-th smallest member of a set of positions
KthOf(I, k) == CHOOSE i \in I : Cardinality({j \in I : j <= i}) = k

\* C8: the loop keeps exactly the first occurrence of every (level, text) with
\* text longer than 3 characters, in the original order; so no (level, text)
\* occurs twice, no text has 3 characters or fewer, and the loop applied to its
\* own output returns it unchanged.
C8_DedupStableIdempotent ==
    /\ d_pc \in {"once", "twice"} =>
           /\ d_unique = [k \in 1..Cardinality(FirstOccurrences) |->
                             d_headings[KthOf(FirstOccurrences, k)]]
           /\ \A i \in 1..Len(d_unique) : \A j \in 1..Len(d_unique) :
                  (i # j) => <<d_unique[i].level, d_unique[i].text>>
                                 # <<d_unique[j].level, d_unique[j].text>>
           /\ \A i \in 1..Len(d_unique) : Len(d_unique[i].text) > 3
    /\ d_pc = "twice" => d_again = d_unique

\* C8 witness: a duplicate that differs only in its page and a short text
\* were dropped, and the loop has run on its own output.
C8_Witness ==
    /\ d_pc = "twice"
    /\ Len(d_headings) = 3
    /\ Len(d_unique) = 1
    /\ \E i \in 1..3 : Len(d_headings[i].text) <= 3
    /\ \E i \in 1..3 : \E j \in 1..3 :
           /\ i < j
           /\ Len(d_headings[i].text) > 3
           /\ d_headings[i].level = d_headings[j].level
           /\ d_headings[i].text = d_headings[j].text
           /\ d_headings[i].page # d_headings[j].page

-----------------------------------------------------------------------------
(* Properties of process_folder and extract_outline (Spec).                *)

\* the record the complete pipeline computes for a document
FullOutline(doc) ==
    LET page_list == extract_text_with_metadata(doc)
        lines == merge_by_line(Flatten(page_list), DefaultTol).lines
        stats == analyze_font_distribution(lines)
        cands == SelectSeq(lines,
                           LAMBDA el : is_heading_candidate(el, stats.sig_sizes,
                                                            stats.base_size))
    IN [title |-> IF get_title(page_list) # <<>> THEN get_title(page_list)
                  ELSE FallbackTitle(doc.stem),
        outline |-> unique_headings(assign_heading_levels(cands, stats.sig_sizes))]

\* C3: whatever failed on an earlier document, process_and_save is called for
\* every discovered document: process_folder never ends with a document
\* left unattempted.
C3_BatchReachesEveryDocument ==
    pc \in {"done", "aborted"} => attempted = 1..Len(pdf_files)

\* C4: extract_outline returns the record of the complete pipeline when no
\* step raised and the record {title: file stem, outline: empty} when a step
\* raised; no exception leaves it, and no partly built heading list is
\* returned or saved.
C4_FullOrDegraded ==
    /\ aborted_by \notin TrySteps
    /\ pc = "dump" =>
           /\ raised_at = "none" => outline = FullOutline(pdf)
           /\ raised_at # "none" => outline = [title |-> pdf.stem, outline |-> <<>>]
    /\ \A k \in 1..Len(saved) :
           \E i \in attempted :
               /\ saved[k].file = pdf_files[i].stem
               /\ saved[k].record \in {FullOutline(pdf_files[i]),
                                       [title |-> pdf_files[i].stem, outline |-> <<>>]}

\* C4 witness: the last step raised after the heading list had been built,
\* and the degraded record was returned.
C4_Witness ==
    /\ pc = "dump"
    /\ raised_at = "dedup"
    /\ eo_headings # <<>>
    /\ outline = [title |-> pdf.stem, outline |-> <<>>]
    /\ FullOutline(pdf).outline # <<>>

\* C5: a handle that was opened is closed before extract_outline returns,
\* whether extraction succeeded or raised: outside extract_outline no
\* document's handle is open.
C5_HandleReleased ==
    pc \in {"dump", "loop", "mkdir", "open", "done", "aborted"} =>
        \A i \in 1..Len(pdf_files) : handles[i] # "open"

\* C6: the returned outline is in document order: pages never decrease along
\* the outline, the merged lines being ordered by page and then by line-y.
C6_DocumentOrder ==
    (pc = "dump" /\ raised_at = "none") =>
        /\ \A i \in 1..Len(outline.outline) : \A j \in 1..Len(outline.outline) :
               i < j => outline.outline[i].page <= outline.outline[j].page
        /\ \A i \in 1..Len(eo_merged) : \A j \in 1..Len(eo_merged) :
               i < j => \/ eo_merged[i].page < eo_merged[j].page
                        \/ /\ eo_merged[i].page = eo_merged[j].page
                           /\ eo_merged[i].line_y < eo_merged[j].line_y

====
